---- MODULE Spec2Model ----
(***************************************************************************)
(* Reconciliation of external changes in the mod deployment               *)
(* (extensions/mod_management/util/externalChanges.ts).                    *)
(*                                                                         *)
(* One reconciliation pass is one call of dealWithExternalChanges: the     *)
(* detector (checkForExternalChanges), the decision source                 *)
(* (showExternalChanges) and one applyFileActions call per mod type, each  *)
(* a promise chain drop -> delete -> import -> rebuild -> notify.          *)
(* Files are modelled by their content (0 = the file does not exist).      *)
(*                                                                         *)
(* Two smaller components have specifications of their own: the queue of   *)
(* util/util.ts (makeQueue) and the serialisation of fomod installs in     *)
(* controls/table/GameFilter.tsx (install, init).                          *)
(***************************************************************************)
EXTENDS Integers, Sequences, FiniteSets, TLC

\* ------------------------------------------------------------------ bounds
\* largest number of discrepancies (and so of decisions) in one pass
MaxChanges == 2

\* largest number of enqueue calls made on one queue
MaxEnqueue == 3

\* largest number of requests made to the fomod installer
MaxRequests == 3

\* ------------------------------------------------------------- the universe
Undefined == "undefined"

ModTypes == {"t1", "t2"}
Mods == {"A", "B"}
Paths == {"p", "q", "r"}

\* file contents: 0 = absent, 1 = as deployed, 2 = changed outside
Absent == 0
Contents == {1, 2}

\* profiles of the store and their games; "prof1" is the active profile
Profiles == {"prof1", "prof2"}
GameIds == {"game1", "game2"}
ProfileIds == {Undefined, "prof2", "gone"}

Actions == {"import", "delete", "drop", "restore", "newest", "nop"}

\* the manifests of the last deployment: relPath is unique within a mod type
Manifest0 ==
  [t \in ModTypes |->
     IF t = "t1"
       THEN << [relPath |-> "p", source |-> "A"], [relPath |-> "r", source |-> "A"],
               [relPath |-> "q", source |-> "B"] >>
       ELSE << [relPath |-> "p", source |-> "B"] >>]

\* a discrepancy slot: a relPath of a mod type's manifest that can have changed
SlotOrder == << <<"t1", "p">>, <<"t1", "q">>, <<"t2", "p">> >>
Slots == { SlotOrder[i] : i \in 1..Len(SlotOrder) }

\* the deployed files: <<typeId, relPath, source>> of every manifest entry
Deployments ==
  UNION { { <<t, Manifest0[t][i].relPath, Manifest0[t][i].source>> :
              i \in 1..Len(Manifest0[t]) } : t \in ModTypes }

\* the mod a slot's manifest entry was deployed from
SourceOf(slot) ==
  (CHOOSE d \in Deployments : d[1] = slot[1] /\ d[2] = slot[2])[3]

\* what a changed slot can look like on disk: s = staging file, t = target file
ChangeKinds ==
  { [s |-> 1, t |-> Absent],   \* target deleted
    [s |-> Absent, t |-> 1],   \* staging file deleted
    [s |-> 1, t |-> 2],        \* target modified
    [s |-> 1, t |-> 1] }       \* same object on both sides, time changed
Deployed == [s |-> 1, t |-> 1]

\* what the decision source can answer for one discrepancy; a newest answer
\* comes with the source newer or with the target newer; path tells whether
\* the decision carries the path of the discrepancy
Answers ==
  [action : Actions \ {"newest"}, sourceModified : {1}, destModified : {1},
   path : {"valid"}]
    \cup { [action |-> "newest", sourceModified |-> 2, destModified |-> 1,
            path |-> "valid"],
           [action |-> "newest", sourceModified |-> 1, destModified |-> 2,
            path |-> "valid"] }

\* a newest answer for two files with the same modification time
NewestTie ==
  [action |-> "newest", sourceModified |-> 1, destModified |-> 1, path |-> "valid"]

\* the answer that leaves a discrepancy alone
NopAnswer ==
  [action |-> "nop", sourceModified |-> 1, destModified |-> 1, path |-> "valid"]

\* answers whose filePath is empty or undefined
InvalidAnswers ==
  [action : Actions \ {"newest"}, sourceModified : {1}, destModified : {1},
   path : {"empty", "undefined"}]
    \cup [action : {"newest"}, sourceModified : {1, 2}, destModified : {1},
          path : {"empty", "undefined"}]

\* the filePath of a decision without a usable path
EmptyPath == ""

\* what the decision source can return
Replies == {"list", "empty", "undefined"}

\* Object.keys(lastDeployment): the order in which the mod types are visited
TypeOrder == << "t1", "t2" >>

VARIABLES
  profileId,       \* argument of dealWithExternalChanges
  lastDeployment,  \* argument: [typeId -> manifest]; mutated by the pass
  staging,         \* staging[mod][path]: content of stagingPath/mod/path
  target,          \* target[typeId][path]: content of modPaths[typeId]/path
  staging0,        \* the staging files before the pass
  target0,         \* the target files before the pass
  external,        \* slots whose files were changed outside (what the activator finds)
  present,         \* Object.keys(lastDeployment): the mod types that have a manifest
  answers,         \* what the decision source answers for each discrepancy
  reply,           \* what the decision source returns: a list, [] or undefined
  calls,           \* mod types activator.externalChanges was called for, in order
  prompted,        \* showExternalChanges has been dispatched
  inFlight,        \* mod types whose activator.externalChanges call has not settled
  changedTypes,    \* Object.keys(changes)
  changes,         \* the changes object of checkForExternalChanges
  fileActions,     \* decisions returned by the decision source
  pc,              \* position of the pass
  typeIdx,         \* index into TypeOrder of the applyFileActions call
  step,            \* position of the chain inside applyFileActions
  ops,             \* ops[i]: state of the file operation of decision i
  local,           \* the lastDeployment parameter of applyFileActions
  fsLog,           \* file operations the pass has carried out
  warned,          \* decisions logged as 'file disappeared'
  emitted,         \* 'mod-content-changed' events emitted so far, in order
  queue,           \* makeQueue: the link of the promise chain held by queue
  atEnd,           \* makeQueue: atEnd
  tasks,           \* the enqueue calls made on the queue, in order
  installLib,      \* fomod: installLib ("undefined" until edge.func has made it)
  currentInstallPromise,  \* fomod: the request whose install made it, 0 for Promise.resolve()
  requests         \* the installer requests made so far, in order

vars == << profileId, lastDeployment, staging, target, staging0, target0,
           external, present, answers, reply, calls, prompted, inFlight,
           changedTypes, changes,
           fileActions, pc, typeIdx, step, ops, local, fsLog, warned, emitted,
           queue, atEnd, tasks, installLib, currentInstallPromise, requests >>

\* the state of one reconciliation pass
passVars == << profileId, lastDeployment, staging, target, staging0, target0,
               external, present, answers, reply, calls, prompted, inFlight,
               changedTypes, changes,
               fileActions, pc, typeIdx, step, ops, local, fsLog, warned, emitted >>

\* the state of a queue made by makeQueue
queueVars == << queue, atEnd, tasks >>

\* the state of the fomod installer
installVars == << installLib, currentInstallPromise, requests >>

\* what a reconciliation pass leaves alone
otherVars == << queueVars, installVars >>

fsVars == << staging, target, fsLog, warned >>
inputVars == << profileId, staging0, target0, external, present, answers, reply >>
askVars == << calls, prompted, inFlight, changedTypes >>

\* ------------------------------------------------------------------ helpers
Range(s) == { s[i] : i \in 1..Len(s) }

\* state.persistent.profiles: the game of a profile
ProfileGame(p) == IF p = "prof1" THEN "game1" ELSE "game2"

\* activeGameId(state)
activeGameId == "game1"

\* the result of a profile lookup that finds nothing
NoProfile == [id |-> Undefined, gameId |-> Undefined]

\* profileById(state, id): the profile record, or NoProfile for undefined
profileById(id) ==
  IF id \in Profiles THEN [id |-> id, gameId |-> ProfileGame(id)] ELSE NoProfile

\* activeProfile(state)
activeProfile == profileById("prof1")

\* Resolve with restore handled like drop
ResolveRestoreAsDrop(value) ==
  IF value.action = "newest"
    THEN IF value.sourceModified > value.destModified THEN "drop" ELSE "import"
    ELSE IF value.action = "restore" THEN "drop" ELSE value.action

\* Resolve with a tie of the modification times going to the staging side
ResolveTieAsDrop(value) ==
  IF value.action = "newest"
    THEN IF value.sourceModified >= value.destModified THEN "drop" ELSE "import"
    ELSE value.action

\* lines 38-40: the action a decision is grouped under
Resolve(value) ==
  IF value.action = "newest"
    THEN IF value.sourceModified > value.destModified THEN "drop" ELSE "import"
    ELSE value.action

\* typeId of the applyFileActions call in progress
CurType == TypeOrder[typeIdx]

\* the whole decision list handed to every call
ActionsOfAll(typeId) == 1..Len(fileActions)

\* line 174: indices of the decisions handed to the call for typeId
ActionsOf(typeId) ==
  { i \in 1..Len(fileActions) : fileActions[i].modTypeId = typeId }

\* actionGroups[group] of the call for typeId, as indices
Group(typeId, group) ==
  { i \in ActionsOf(typeId) : Resolve(fileActions[i]) = group }

\* --------------------------------------------------------------------- Init
\* The arguments of the pass and what its collaborators will answer. Passes
\* of profile "prof2" with every manifest present and a decision list from
\* Answers are explored with up to MaxChanges changes; every other input
\* (another profile id, a missing manifest, a reply of [] or undefined, an
\* answer from special) with at most one change.
InitWith(special) ==
  /\ profileId \in ProfileIds
  /\ present \in SUBSET ModTypes
  /\ reply \in Replies
  /\ external \in { e \in SUBSET Slots :
                      /\ Cardinality(e) <= MaxChanges
                      /\ \A sl \in e : sl[1] \in present }
  /\ answers \in [external -> Answers \cup special]
  /\ reply # "list" => \A sl \in external : answers[sl] = NopAnswer
  /\ \/ /\ profileId = "prof2" /\ present = ModTypes /\ reply = "list"
        /\ \A sl \in external : answers[sl] \in Answers
     \/ Cardinality(external) <= 1
  /\ \E kind \in [Slots -> ChangeKinds \cup {Deployed}] :
       /\ \A sl \in Slots \ external : kind[sl] = Deployed
       /\ \A sl \in external : kind[sl] \in ChangeKinds
       /\ staging = [m \in Mods |-> [p \in Paths |->
            IF \E d \in Deployments : d[2] = p /\ d[3] = m
              THEN LET d == CHOOSE d \in Deployments : d[2] = p /\ d[3] = m
                   IN  IF <<d[1], p>> \in Slots THEN kind[<<d[1], p>>].s ELSE Deployed.s
              ELSE Absent]]
       /\ target = [t \in ModTypes |-> [p \in Paths |->
            IF \E d \in Deployments : d[1] = t /\ d[2] = p
              THEN IF <<t, p>> \in Slots THEN kind[<<t, p>>].t ELSE Deployed.t
              ELSE Absent]]
  /\ staging0 = staging
  /\ target0 = target
  /\ lastDeployment = [t \in ModTypes |-> IF t \in present THEN Manifest0[t] ELSE << >>]
  /\ calls = << >>
  /\ prompted = FALSE
  /\ inFlight = {}
  /\ changedTypes = {}
  /\ changes = {}
  /\ fileActions = << >>
  /\ pc = "check"
  /\ typeIdx = 1
  /\ step = "begin"
  /\ ops = << >>
  /\ local = << >>
  /\ fsLog = {}
  /\ warned = {}
  /\ emitted = << >>

\* util.ts lines 133-134: a new queue
NoQueue ==
  /\ queue = 0
  /\ atEnd = TRUE
  /\ tasks = << >>

\* GameFilter.tsx line 249 and the module scope: nothing installed yet
NoInstall ==
  /\ installLib = Undefined
  /\ currentInstallPromise = 0
  /\ requests = << >>

\* a pass that finds nothing to do, for the runs about the other components
NoPass ==
  /\ InitWith({})
  /\ profileId = "prof2" /\ present = ModTypes /\ reply = "list" /\ external = {}

\* decisions that carry the path of their discrepancy
Init == InitWith({NewestTie}) /\ NoQueue /\ NoInstall

\* decisions that may come without a usable path
InitInvalid == InitWith({NewestTie} \cup InvalidAnswers) /\ NoQueue /\ NoInstall

\* ------------------------------------------------- the file system (util/fs)
\* fs.removeAsync(path): the file is gone afterwards, whether or not it existed
RemoveFile(dir, path) == [dir EXCEPT ![path] = Absent]

\* fs.moveAsync(src, dest, { overwrite: true }): dest gets the content of src
MoveInto(dir, path, content) == [dir EXCEPT ![path] = content]

\* fs.removeAsync(dir): a directory goes with everything in it
RemoveDir(dir) == [p \in DOMAIN dir |-> Absent]

RemoveRecord(side, dir, path, i) ==
  [op |-> "remove", side |-> side, dir |-> dir, path |-> path, by |-> i]
MoveRecord(dir, mod, path, i) ==
  [op |-> "move", side |-> "target", dir |-> dir, path |-> path, by |-> i]

\* --------------------------------------------------- checkForExternalChanges
\* checkProfile falling back to the active profile for an unknown profile id
checkProfileOrActive ==
  IF profileId # Undefined /\ profileById(profileId) # NoProfile
    THEN profileById(profileId)
    ELSE activeProfile

\* lines 134-139: resolve the profile or reject with ProcessCanceled
checkProfile ==
  IF profileId # Undefined THEN profileById(profileId) ELSE activeProfile

CheckProfile ==
  /\ pc = "check"
  /\ pc' = IF checkProfile = NoProfile THEN "failed" ELSE "detect"
  /\ UNCHANGED << lastDeployment, fileActions, changes, typeIdx, step, ops,
                  local, emitted, fsVars, inputVars, otherVars, askVars >>

\* activator.externalChanges for one mod type: the changed slots of that type
externalChanges(typeId) == { sl \in external : sl[1] = typeId }

\* the iterator of the next key called without waiting for the previous call
EachAtOnce == TRUE

\* line 140: Promise.each calls its iterator for the next key when the promise
\* the previous call returned has resolved
EachReady == inFlight = {}

\* lines 141-145: the iterator is called for the next key of modPaths and
\* calls the activator
DetectCall ==
  /\ pc = "detect"
  /\ CurType \notin Range(calls)
  /\ EachReady
  /\ IF CurType \notin present
       THEN \* line 143: lastDeployment[typeId].length of a missing manifest throws
            /\ pc' = "failed"
            /\ UNCHANGED << typeIdx, calls, inFlight >>
       ELSE /\ calls' = Append(calls, CurType)
            /\ inFlight' = inFlight \cup {CurType}
            /\ typeIdx' = IF typeIdx < Len(TypeOrder) THEN typeIdx + 1 ELSE typeIdx
            /\ pc' = pc
  /\ UNCHANGED << lastDeployment, fileActions, changes, step, ops, local, emitted,
                  fsVars, inputVars, otherVars, prompted, changedTypes >>

\* a key for every mod type the activator was asked about
reportedKeyAlways(typeId) == {typeId}

\* lines 147-149: a mod type gets a key in changes when the activator
\* reported at least one change for it
reportedKey(typeId) == IF externalChanges(typeId) # {} THEN {typeId} ELSE {}

\* lines 146-152: the call of the activator for typeId settles; when the call
\* for the last key has resolved the detector resolves with changes
DetectSettle(typeId) ==
  /\ pc = "detect"
  /\ typeId \in inFlight
  /\ inFlight' = inFlight \ {typeId}
  /\ \/ /\ changes' = changes \cup externalChanges(typeId)
        /\ changedTypes' = changedTypes \cup reportedKey(typeId)
        /\ IF inFlight' = {} /\ Len(calls) = Len(TypeOrder)
             THEN typeIdx' = 1 /\ pc' = "prompt"
             ELSE typeIdx' = typeIdx /\ pc' = pc
     \/ \* the activator rejects
        /\ pc' = "failed"
        /\ UNCHANGED << changes, changedTypes, typeIdx >>
  /\ UNCHANGED << lastDeployment, fileActions, step, ops, local, emitted,
                  fsVars, inputVars, otherVars, calls, prompted >>

\* --------------------------------------------------- dealWithExternalChanges
\* the decision list for the reported changes: one decision per discrepancy
Decisions(answer) ==
  LET reported == SelectSeq(SlotOrder, LAMBDA sl : sl \in changes)
  IN  [i \in 1..Len(reported) |->
         [action |-> answer[reported[i]].action,
          filePath |-> IF answer[reported[i]].path = "valid" THEN reported[i][2]
                       ELSE IF answer[reported[i]].path = "empty" THEN EmptyPath
                       ELSE Undefined,
          source |-> SourceOf(reported[i]),
          modTypeId |-> reported[i][1],
          sourceModified |-> answer[reported[i]].sourceModified,
          destModified |-> answer[reported[i]].destModified]]

\* lines 162-170: ask for decisions only when something changed
Prompt ==
  /\ pc = "prompt"
  /\ prompted' = (changedTypes # {})
  /\ IF changedTypes # {} /\ reply = "list"
       THEN fileActions' = Decisions(answers)
       ELSE fileActions' = << >>
  /\ ops' = [i \in 1..Len(fileActions') |-> "idle"]
  /\ pc' = "apply"
  /\ typeIdx' = 1
  /\ step' = "begin"
  /\ UNCHANGED << lastDeployment, changes, local, emitted, staging, target,
                  fsLog, warned, inputVars, otherVars, calls, inFlight, changedTypes >>

\* the decision source was asked and returned undefined
fileActionsUndefined == prompted /\ reply = "undefined"

\* ----------------------------------------------------------- applyFileActions
\* util.ts truthy: !!val
truthy(val) == val \notin {EmptyPath, Undefined}

\* the mapper of the group gives back no running operation for decision i:
\* drop and delete return Promise.reject for a path that is not truthy (lines
\* 52-54, 56-58); import has no such test, path.join throws for undefined and
\* names the directory itself for '' (lines 62-63)
Refused(i, group) ==
  IF group = "import" THEN fileActions[i].filePath = Undefined
  ELSE ~truthy(fileActions[i].filePath)

\* Promise.map calls its mapper for every entry of the group at once (a pass
\* with a refused decision has no other decision, see InitWith)
Started(group) ==
  [i \in 1..Len(fileActions) |->
     IF i \in Group(CurType, group)
       THEN IF Refused(i, group) THEN "failed" ELSE "running"
       ELSE ops[i]]

\* a refused decision rejects the group as soon as it starts
StartedPc(group) ==
  IF \E i \in Group(CurType, group) : Refused(i, group) THEN "failed" ELSE pc

\* a rejected operation rejects the chain, and with it the whole pass
Rejected == IF pc = "apply" THEN "failed" ELSE pc

\* lines 33-50: the call starts with the drop group
ApplyBegin ==
  /\ pc = "apply" /\ step = "begin"
  /\ IF fileActionsUndefined
       THEN \* line 174: fileActions.filter of undefined throws
            /\ pc' = "failed"
            /\ UNCHANGED << local, step, ops >>
       ELSE /\ local' = lastDeployment[CurType]
            /\ step' = "drop"
            /\ ops' = Started("drop")
            /\ pc' = StartedPc("drop")
  /\ UNCHANGED << lastDeployment, fileActions, changes, typeIdx, emitted,
                  fsVars, inputVars, otherVars, askVars >>

\* a drop that links the staging file into the target again
afterDropRedeploy(i) ==
  [target EXCEPT ![CurType] =
     MoveInto(@, fileActions[i].filePath,
              staging[fileActions[i].source][fileActions[i].filePath])]

\* line 53: the target directory after fs.removeAsync(outputPath/filePath);
\* outputPath is modPaths[typeId] of the call in progress (line 173)
afterDrop(i) ==
  [target EXCEPT ![CurType] = RemoveFile(@, fileActions[i].filePath)]

\* lines 52-54: one drop removes the deployed file
DropOp(i) ==
  /\ ops[i] = "running" /\ Resolve(fileActions[i]) = "drop"
  /\ LET typeId == CurType
         path == fileActions[i].filePath
     IN  \/ /\ target' = afterDrop(i)
            /\ fsLog' = fsLog \cup {RemoveRecord("target", typeId, path, i)}
            /\ ops' = [ops EXCEPT ![i] = "ok"]
            /\ pc' = pc
         \/ /\ ops' = [ops EXCEPT ![i] = "failed"]
            /\ pc' = Rejected
            /\ UNCHANGED << target, fsLog >>
  /\ UNCHANGED << lastDeployment, fileActions, changes, typeIdx, step, local,
                  emitted, staging, warned, inputVars, otherVars, askVars >>

\* the delete group started without waiting for the drops
DropsNotAwaited == TRUE

\* line 55: the delete group starts when every drop has resolved
DropsDone == \A i \in Group(CurType, "drop") : ops[i] = "ok"

DeleteBegin ==
  /\ pc = "apply" /\ step = "drop"
  /\ DropsDone
  /\ step' = "delete"
  /\ ops' = Started("delete")
  /\ pc' = StartedPc("delete")
  /\ UNCHANGED << lastDeployment, fileActions, changes, typeIdx, local,
                  emitted, fsVars, inputVars, otherVars, askVars >>

\* the staging file named with the mod of the first decision of the list
stagingFileOfFirst(i) ==
  [mod |-> fileActions[1].source, path |-> fileActions[i].filePath]

\* lines 57 and 62: path.join(sourcePath, entry.source, entry.filePath)
stagingFile(i) ==
  [mod |-> fileActions[i].source, path |-> fileActions[i].filePath]

\* lines 56-58: one delete removes the file of the source mod in staging
DeleteOp(i) ==
  /\ ops[i] = "running" /\ Resolve(fileActions[i]) = "delete"
  /\ LET mod == stagingFile(i).mod
         path == stagingFile(i).path
     IN  \/ /\ staging' = [staging EXCEPT ![mod] = RemoveFile(@, path)]
            /\ fsLog' = fsLog \cup {RemoveRecord("staging", mod, path, i)}
            /\ ops' = [ops EXCEPT ![i] = "ok"]
            /\ pc' = pc
         \/ /\ ops' = [ops EXCEPT ![i] = "failed"]
            /\ pc' = Rejected
            /\ UNCHANGED << staging, fsLog >>
  /\ UNCHANGED << lastDeployment, fileActions, changes, typeIdx, step, local,
                  emitted, target, warned, inputVars, otherVars, askVars >>

\* line 59: the import group starts when every delete has resolved
DeletesDone == \A i \in Group(CurType, "delete") : ops[i] = "ok"

ImportBegin ==
  /\ pc = "apply" /\ step = "delete"
  /\ DeletesDone
  /\ step' = "import"
  /\ ops' = Started("import")
  /\ pc' = StartedPc("import")
  /\ UNCHANGED << lastDeployment, fileActions, changes, typeIdx, local,
                  emitted, fsVars, inputVars, otherVars, askVars >>

\* line 69: an import first removes the staging file; with '' for a path
\* path.join gives the directory of the mod, which is removed as a whole
ImportRemove(i) ==
  /\ ops[i] = "running" /\ Resolve(fileActions[i]) = "import"
  /\ LET mod == stagingFile(i).mod
         path == stagingFile(i).path
     IN  \/ /\ staging' = [staging EXCEPT ![mod] =
                             IF path = EmptyPath THEN RemoveDir(@)
                             ELSE RemoveFile(@, path)]
            /\ fsLog' = fsLog \cup {RemoveRecord("staging", mod, path, i)}
            /\ ops' = [ops EXCEPT ![i] = "removed"]
            /\ pc' = pc
         \/ /\ ops' = [ops EXCEPT ![i] = "failed"]
            /\ pc' = Rejected
            /\ UNCHANGED << staging, fsLog >>
  /\ UNCHANGED << lastDeployment, fileActions, changes, typeIdx, step, local,
                  emitted, target, warned, inputVars, otherVars, askVars >>

\* lines 70-71: then moves the deployed file into staging; a deployed file that
\* is gone (ENOENT) is logged and the import counts as resolved; with '' for a
\* path the target directory itself is moved to the place of the mod
ImportMove(i) ==
  /\ ops[i] = "removed"
  /\ LET typeId == CurType
         mod == stagingFile(i).mod
         path == stagingFile(i).path
     IN  IF path # EmptyPath /\ target[typeId][path] = Absent
           THEN /\ warned' = warned \cup {i}
                /\ ops' = [ops EXCEPT ![i] = "warned"]
                /\ pc' = pc
                /\ UNCHANGED << staging, target, fsLog >>
           ELSE \/ /\ staging' = [staging EXCEPT ![mod] =
                                    IF path = EmptyPath THEN target[typeId]
                                    ELSE MoveInto(@, path, target[typeId][path])]
                   /\ target' = [target EXCEPT ![typeId] =
                                   IF path = EmptyPath THEN RemoveDir(@)
                                   ELSE RemoveFile(@, path)]
                   /\ fsLog' = fsLog \cup {MoveRecord(typeId, mod, path, i)}
                   /\ ops' = [ops EXCEPT ![i] = "ok"]
                   /\ pc' = pc
                   /\ UNCHANGED warned
                \/ /\ ops' = [ops EXCEPT ![i] = "failed"]
                   /\ pc' = Rejected
                   /\ UNCHANGED << staging, target, fsLog, warned >>
  /\ UNCHANGED << lastDeployment, fileActions, changes, typeIdx, step, local,
                  emitted, inputVars, otherVars, askVars >>

\* the rebuild started without waiting for the imports
ImportsNotAwaited == TRUE

\* line 73: the rebuild runs when every import has resolved
ImportsDone == \A i \in Group(CurType, "import") : ops[i] \in {"ok", "warned"}

\* dropSet without the imported paths
dropSetNoImport(typeId) ==
  { fileActions[i].filePath :
      i \in Group(typeId, "restore") \cup Group(typeId, "drop")
              \cup Group(typeId, "delete") }

\* lines 77-85: the paths whose manifest entries are dropped
dropSet(typeId) ==
  { fileActions[i].filePath :
      i \in Group(typeId, "restore") \cup Group(typeId, "drop")
              \cup Group(typeId, "delete") \cup Group(typeId, "import") }

\* newDeployment adding the kept entries to the prior manifest
newDeploymentAppended(last, typeId) ==
  last \o SelectSeq(last, LAMBDA entry : entry.relPath \notin dropSet(typeId))

\* newDeployment returning the kept entries last to first
newDeploymentReversed(last, typeId) ==
  LET kept == SelectSeq(last, LAMBDA entry : entry.relPath \notin dropSet(typeId))
  IN  [k \in 1..Len(kept) |-> kept[Len(kept) + 1 - k]]

\* newDeployment keeping the dropped entries and dropping the others
newDeploymentInverted(last, typeId) ==
  SelectSeq(last, LAMBDA entry : entry.relPath \in dropSet(typeId))

\* line 86
newDeployment(last, typeId) ==
  SelectSeq(last, LAMBDA entry : entry.relPath \notin dropSet(typeId))

Rebuild ==
  /\ pc = "apply" /\ step = "import"
  /\ ImportsDone
  /\ local' = newDeployment(local, CurType)
  /\ step' = "notify"
  /\ UNCHANGED << lastDeployment, fileActions, changes, pc, typeIdx, ops,
                  emitted, fsVars, inputVars, otherVars, askVars >>

\* the affecting actions with restore among them
AffectingActionsAll == {"import", "newest", "nop", "delete", "drop", "restore"}

\* line 94: the actions that make a mod count as affected
AffectingActions == {"import", "newest", "nop", "delete", "drop"}

\* lines 91-97: the sources of the affecting decisions of the call, each once,
\* in the order of their first decision
RECURSIVE affectedFrom(_, _, _)
affectedFrom(i, typeId, acc) ==
  IF i > Len(fileActions) THEN acc
  ELSE IF /\ i \in ActionsOf(typeId)
          /\ fileActions[i].action \in AffectingActions
          /\ fileActions[i].source \notin Range(acc)
         THEN affectedFrom(i + 1, typeId, Append(acc, fileActions[i].source))
         ELSE affectedFrom(i + 1, typeId, acc)

affectedMods(typeId) == affectedFrom(1, typeId, << >>)

\* lines 99-111: the first argument of the event
eventGameId ==
  IF profileId # Undefined /\ profileById(profileId) # NoProfile
    THEN profileById(profileId).id
    ELSE activeGameId

\* lines 113-115
Notify ==
  /\ pc = "apply" /\ step = "notify"
  /\ emitted' = emitted \o
       [k \in 1..Len(affectedMods(CurType)) |->
          [gameId |-> eventGameId, modId |-> affectedMods(CurType)[k],
           typeId |-> CurType]]
  /\ step' = "return"
  /\ UNCHANGED << lastDeployment, fileActions, changes, pc, typeIdx, ops,
                  local, fsVars, inputVars, otherVars, askVars >>

\* lines 117 and 175: the call resolves, its manifest replaces the old one and
\* mapSeries goes on to the next mod type
Return ==
  /\ pc = "apply" /\ step = "return"
  /\ lastDeployment' = [lastDeployment EXCEPT ![CurType] = local]
  /\ IF typeIdx < Len(TypeOrder)
       THEN typeIdx' = typeIdx + 1 /\ step' = "begin" /\ pc' = pc
       ELSE typeIdx' = typeIdx /\ step' = step /\ pc' = "done"
  /\ UNCHANGED << fileActions, changes, ops, local, emitted, fsVars, inputVars, otherVars, askVars >>

\* --------------------------------------------------------------- environment
\* something outside removes a deployed file while an import of the pass is
\* on its way to move it (the target files are read by no other operation)
TargetVanishes(typeId, path) ==
  /\ \E i \in 1..Len(fileActions) :
       /\ ops[i] \in {"running", "removed"}
       /\ Resolve(fileActions[i]) = "import"
       /\ fileActions[i].modTypeId = typeId
       /\ fileActions[i].filePath = path
  /\ target[typeId][path] # Absent
  /\ target' = [target EXCEPT ![typeId] = RemoveFile(@, path)]
  /\ UNCHANGED << lastDeployment, fileActions, changes, pc, typeIdx, step, ops,
                  local, emitted, staging, fsLog, warned, inputVars, otherVars, askVars >>

\* --------------------------------------------------------------------- Next
Next ==
  \/ CheckProfile
  \/ DetectCall
  \/ \E typeId \in ModTypes : DetectSettle(typeId)
  \/ Prompt
  \/ ApplyBegin
  \/ \E i \in 1..Len(fileActions) : DropOp(i)
  \/ DeleteBegin
  \/ \E i \in 1..Len(fileActions) : DeleteOp(i)
  \/ ImportBegin
  \/ \E i \in 1..Len(fileActions) : ImportRemove(i)
  \/ \E i \in 1..Len(fileActions) : ImportMove(i)
  \/ Rebuild
  \/ Notify
  \/ Return
  \/ \E typeId \in ModTypes, path \in Paths : TargetVanishes(typeId, path)

Spec == Init /\ [][Next]_vars

\* the same pass with decisions that may lack a usable path
SpecInvalid == InitInvalid /\ [][Next]_vars

\* ------------------------------------------------------ makeQueue (util.ts)
\* what a function handed to enqueue does when it is called: it returns a
\* promise that resolves, one that rejects, or it throws before returning
Outcomes == {"resolve", "reject", "throw"}

\* lines 136-147: enqueue(func, tryOnly). A tryOnly call on a queue that is
\* not at its end resolves at once; any other call chains a link for func to
\* queue. busy records whether a function enqueued before had been enqueued
\* for running and had not finished when the call was made.
enqueue(will, tryOnly) ==
  /\ Len(tasks) < MaxEnqueue
  /\ LET busy == \E j \in 1..Len(tasks) : tasks[j].st \in {"queued", "running"}
     IN  IF tryOnly /\ ~atEnd
           THEN /\ tasks' = Append(tasks,
                      [tryOnly |-> tryOnly, will |-> will, busy |-> busy, prev |-> 0,
                       st |-> "skipped", link |-> "none", promise |-> "resolved",
                       called |-> 0])
                /\ queue' = queue
           ELSE /\ tasks' = Append(tasks,
                      [tryOnly |-> tryOnly, will |-> will, busy |-> busy, prev |-> queue,
                       st |-> "queued", link |-> "pending", promise |-> "pending",
                       called |-> 0])
                /\ queue' = Len(tasks) + 1
  /\ UNCHANGED << atEnd, passVars, installVars >>

\* every link starts at once
PreviousIgnored(k) == TRUE

\* line 140: queue.then(...) runs when the link it was chained to has settled
PreviousSettled(k) ==
  IF tasks[k].prev = 0 THEN TRUE ELSE tasks[tasks[k].prev].st = "done"

\* lines 140-143: the callback of then. It is passed over when the previous
\* link is rejected; otherwise it clears atEnd and calls func, and a func
\* that throws rejects the link
thenCallback(k) ==
  /\ tasks[k].st = "queued"
  /\ PreviousSettled(k)
  /\ IF tasks[k].prev # 0 /\ tasks[tasks[k].prev].link = "rejected"
       THEN /\ tasks' = [tasks EXCEPT ![k].st = "settled", ![k].link = "rejected"]
            /\ atEnd' = atEnd
       ELSE /\ atEnd' = FALSE
            /\ IF tasks[k].will = "throw"
                 THEN tasks' = [tasks EXCEPT ![k].st = "settled", ![k].link = "rejected",
                                             ![k].called = @ + 1]
                 ELSE tasks' = [tasks EXCEPT ![k].st = "running", ![k].called = @ + 1]
  /\ UNCHANGED << queue, passVars, installVars >>

\* line 143: the promise of func settles; resolve or reject of the promise
\* enqueue returned is called with its outcome and the link is fulfilled
funcSettles(k) ==
  /\ tasks[k].st = "running"
  /\ tasks' = [tasks EXCEPT
                 ![k].st = "settled",
                 ![k].link = "fulfilled",
                 ![k].promise = IF tasks[k].will = "resolve" THEN "resolved" ELSE "rejected"]
  /\ UNCHANGED << queue, atEnd, passVars, installVars >>

\* lines 145-147: the callback of finally sets atEnd
finallyCallback(k) ==
  /\ tasks[k].st = "settled"
  /\ atEnd' = TRUE
  /\ tasks' = [tasks EXCEPT ![k].st = "done"]
  /\ UNCHANGED << queue, passVars, installVars >>

QueueNext ==
  \/ \E will \in Outcomes, tryOnly \in BOOLEAN : enqueue(will, tryOnly)
  \/ \E k \in 1..Len(tasks) : thenCallback(k)
  \/ \E k \in 1..Len(tasks) : funcSettles(k)
  \/ \E k \in 1..Len(tasks) : finallyCallback(k)

\* enqueue calls arriving at any time on one queue
InitQueue == NoPass /\ NoQueue /\ NoInstall

SpecQueue == InitQueue /\ [][QueueNext]_vars

\* the same with every callback that is due run in the end and every function
\* that was called finishing in the end
SpecQueueFair ==
  /\ SpecQueue
  /\ \A k \in 1..MaxEnqueue :
       /\ WF_vars(k <= Len(tasks) /\ thenCallback(k))
       /\ WF_vars(k <= Len(tasks) /\ funcSettles(k))
       /\ WF_vars(k <= Len(tasks) /\ finallyCallback(k))

\* --------------------------------------- fomod installer (GameFilter.tsx)
\* what installLib reports for a request through its callback
InstallResults == {"ok", "fail"}

\* the promise p has settled: 0 is Promise.resolve(), k the promise install
\* made for request k (line 272), which settles with installLib's callback
InstallSettled(p) ==
  IF p = 0 THEN TRUE ELSE requests[p].st \in {"resolved", "rejected"}

\* lines 349-353: a request to the installer registered by init chains its
\* work to whatever currentInstallPromise is at that moment
fomodInstaller(will) ==
  /\ Len(requests) < MaxRequests
  /\ requests' = Append(requests,
        [waitsOn |-> currentInstallPromise, will |-> will, st |-> "waiting",
         started |-> FALSE, error |-> 0, detached |-> 0])
  /\ UNCHANGED << installLib, currentInstallPromise, passVars, queueVars >>

\* lines 353-363 and 251-286: the promise request k waits for has settled.
\* If it is rejected the then-callback is passed over, catch hands the error
\* of that install on and finally detaches. Otherwise install is called: it
\* makes installLib if need be (edge.func may throw, and the request is
\* rejected), calls installLib and puts the new promise in
\* currentInstallPromise.
install(k) ==
  /\ requests[k].st = "waiting"
  /\ InstallSettled(requests[k].waitsOn)
  /\ IF requests[k].waitsOn # 0 /\ requests[requests[k].waitsOn].st = "rejected"
       THEN /\ requests' = [requests EXCEPT
                              ![k].st = "rejected",
                              ![k].error = requests[requests[k].waitsOn].error,
                              ![k].detached = @ + 1]
            /\ UNCHANGED << installLib, currentInstallPromise >>
       ELSE \/ /\ installLib' = "loaded"
               /\ requests' = [requests EXCEPT ![k].st = "installing", ![k].started = TRUE]
               /\ currentInstallPromise' = k
            \/ /\ installLib = Undefined
               /\ requests' = [requests EXCEPT
                                 ![k].st = "rejected", ![k].error = k, ![k].detached = @ + 1]
               /\ UNCHANGED << installLib, currentInstallPromise >>
  /\ UNCHANGED << passVars, queueVars >>

\* lines 275-285 and 359-363: installLib calls back; the promise of the
\* install settles, its finally puts Promise.resolve() in
\* currentInstallPromise, and the request settles and detaches
installLibDone(k) ==
  /\ requests[k].st = "installing"
  /\ requests' = [requests EXCEPT
                    ![k].st = IF requests[k].will = "ok" THEN "resolved" ELSE "rejected",
                    ![k].error = IF requests[k].will = "ok" THEN 0 ELSE k,
                    ![k].detached = @ + 1]
  /\ currentInstallPromise' = 0
  /\ UNCHANGED << installLib, passVars, queueVars >>

InstallNext ==
  \/ \E will \in InstallResults : fomodInstaller(will)
  \/ \E k \in 1..Len(requests) : install(k)
  \/ \E k \in 1..Len(requests) : installLibDone(k)

InitInstall == NoPass /\ NoQueue /\ NoInstall

\* installer requests arriving at any time
SpecInstall == InitInstall /\ [][InstallNext]_vars

TypeOK ==
  /\ pc \in {"check", "detect", "prompt", "apply", "done", "failed"}
  /\ step \in {"begin", "drop", "delete", "import", "notify", "return"}
  /\ typeIdx \in 1..Len(TypeOrder)
  /\ \A i \in 1..Len(ops) :
       ops[i] \in {"idle", "running", "removed", "ok", "warned", "failed"}

\* ------------------------------------------------------------------- claims
\* the applyFileActions call for typeId is about to resolve with local
AtReturn(typeId) == pc = "apply" /\ step = "return" /\ CurType = typeId

relPaths(m) == { m[k].relPath : k \in 1..Len(m) }

\* decisions of the call for typeId whose path loses its manifest entry
Touching(typeId) ==
  { i \in 1..Len(fileActions) :
      /\ fileActions[i].modTypeId = typeId
      /\ fileActions[i].action \in {"restore", "drop", "delete", "import", "newest"} }

\* position of an entry in the prior manifest
PriorIndex(typeId, entry) ==
  CHOOSE k \in 1..Len(Manifest0[typeId]) : Manifest0[typeId][k] = entry

\* C1: when the file operations of a call all succeed, the manifest it returns
\* is the prior manifest without the entries whose relPath is the filePath of a
\* restore, drop, delete, import or newest decision; the other entries are
\* kept as they were, in their original order.
C1_ManifestRebuilt ==
  \A t \in ModTypes :
    AtReturn(t) =>
      /\ \A k \in 1..Len(local) : local[k] \in Range(Manifest0[t])
      /\ \A e \in Range(Manifest0[t]) :
           e \in Range(local) <=>
             ~ \E i \in Touching(t) : fileActions[i].filePath = e.relPath
      /\ \A j, k \in 1..Len(local) :
           j < k => PriorIndex(t, local[j]) < PriorIndex(t, local[k])

C1_Witness ==
  /\ AtReturn("t1")
  /\ Len(local) = 2
  /\ \E i, j \in 1..Len(fileActions) :
       /\ fileActions[i].action = "import" /\ fileActions[i].filePath = "p"
       /\ fileActions[j].action = "nop" /\ fileActions[j].filePath = "q"
       /\ fileActions[j].modTypeId = "t1"

\* no action of the pass is enabled any more
Quiescent ==
  /\ pc \in {"done", "failed"}
  /\ \A i \in 1..Len(ops) : ops[i] \notin {"running", "removed"}

\* decisions that ask for a file operation
FileOps ==
  { i \in 1..Len(fileActions) :
      fileActions[i].action \in {"drop", "delete", "import", "newest"} }

\* C2: a failed file operation of a drop, delete or import does not abort the
\* rest: when the pass has come to rest, every other file operation has been
\* carried out and every mod type has been rebuilt and notified.
C2_FailureDoesNotAbort ==
  (Quiescent /\ \E i \in 1..Len(ops) : ops[i] = "failed") =>
    /\ \A j \in FileOps : ops[j] \in {"ok", "warned", "failed"}
    /\ pc = "done"

\* target files the pass itself took away
TakenAway(typeId) ==
  { r.path : r \in { x \in fsLog : /\ x.side = "target" /\ x.dir = typeId
                                    /\ target0[typeId][x.path] # Absent } }

\* C3: after a pass that failed part-way, no manifest holds an entry for a
\* path whose target file the pass removed.
C3_NoStaleEntryAfterFailure ==
  pc = "failed" =>
    \A t \in ModTypes : relPaths(lastDeployment[t]) \cap TakenAway(t) = {}

\* C4: an import whose target file was there when it ran (nothing was logged
\* as disappeared) leaves the staging file with the content of the target
\* file, the target file gone and the returned manifest without the path.
C4_ImportMovesTarget ==
  \A t \in ModTypes :
    AtReturn(t) =>
      \A i \in 1..Len(fileActions) :
        (/\ fileActions[i].modTypeId = t
         /\ fileActions[i].action = "import"
         /\ i \notin warned) =>
          /\ target0[t][fileActions[i].filePath] # Absent
          /\ staging[fileActions[i].source][fileActions[i].filePath]
               = target0[t][fileActions[i].filePath]
          /\ target[t][fileActions[i].filePath] = Absent
          /\ fileActions[i].filePath \notin relPaths(local)

\* one import of a changed target file and one of a target file that is the
\* same object as the staging file
C4_Witness ==
  /\ AtReturn("t1")
  /\ warned = {}
  /\ Len(fileActions) = 2
  /\ \A i \in 1..2 : fileActions[i].action = "import" /\ fileActions[i].modTypeId = "t1"
  /\ target0["t1"]["p"] = 2 /\ staging0["A"]["p"] = 1 /\ staging["A"]["p"] = 2
  /\ target0["t1"]["q"] = 1 /\ staging0["B"]["q"] = 1 /\ staging["B"]["q"] = 1

\* C5: an import whose target file had vanished (logged as disappeared) leaves
\* the staging copy that existed before the pass in place.
C5_ImportKeepsLastCopy ==
  \A i \in warned :
    staging0[fileActions[i].source][fileActions[i].filePath] # Absent =>
      staging[fileActions[i].source][fileActions[i].filePath] # Absent

\* C6: a restore decision causes no file operation: no operation is logged
\* for it or for its staging or target file, both files are as they were
\* before the pass, and the returned manifest has no entry for its path.
C6_RestoreTouchesNoFile ==
  \A i \in 1..Len(fileActions) :
    fileActions[i].action = "restore" =>
      LET d == fileActions[i]
      IN  /\ \A r \in fsLog :
               /\ r.by # i
               /\ ~ (r.side = "staging" /\ r.dir = d.source /\ r.path = d.filePath)
               /\ ~ (r.side = "target" /\ r.dir = d.modTypeId /\ r.path = d.filePath)
          /\ staging[d.source][d.filePath] = staging0[d.source][d.filePath]
          /\ target[d.modTypeId][d.filePath] = target0[d.modTypeId][d.filePath]
          /\ AtReturn(d.modTypeId) => d.filePath \notin relPaths(local)

C6_Witness ==
  /\ AtReturn("t1")
  /\ fsLog # {}
  /\ \E i \in 1..Len(fileActions) :
       /\ fileActions[i].action = "restore" /\ fileActions[i].filePath = "p"
       /\ fileActions[i].modTypeId = "t1"
       /\ staging["A"]["p"] = 1 /\ target["t1"]["p"] = Absent

\* the mod types whose events have been emitted
Notified == { emitted[k].typeId : k \in 1..Len(emitted) }

\* the call for typeId has rebuilt its manifest
Rebuilt(typeId) ==
  \/ pc = "done"
  \/ pc = "apply" /\ CurType = typeId /\ step \in {"notify", "return"}
  \/ /\ pc = "apply"
     /\ \E k \in 1..Len(TypeOrder) : TypeOrder[k] = typeId /\ k < typeIdx

\* C7: within a call the steps are ordered: no delete has started unless
\* every drop has completed, no import unless every delete has completed, the
\* manifest is rebuilt only when every import has completed, and events are
\* emitted only after the rebuild.
C7_StepsOrdered ==
  \A t \in ModTypes :
    /\ (\E i \in Group(t, "delete") : ops[i] # "idle") =>
         \A j \in Group(t, "drop") : ops[j] = "ok"
    /\ (\E i \in Group(t, "import") : ops[i] # "idle") =>
         \A j \in Group(t, "drop") \cup Group(t, "delete") : ops[j] = "ok"
    /\ (pc = "apply" /\ Rebuilt(t)) =>
         \A j \in Group(t, "drop") \cup Group(t, "delete") \cup Group(t, "import") :
           ops[j] \in {"ok", "warned"}
    /\ t \in Notified =>
         /\ \A j \in Group(t, "drop") \cup Group(t, "delete") \cup Group(t, "import") :
              ops[j] \in {"ok", "warned"}
         /\ IF pc = "apply" /\ CurType = t
              THEN relPaths(local) \cap dropSet(t) = {}
              ELSE relPaths(lastDeployment[t]) \cap dropSet(t) = {}

C7_Witness ==
  /\ AtReturn("t1")
  /\ Group("t1", "drop") # {}
  /\ Group("t1", "delete") # {}
  /\ "t1" \in Notified

\* number of events emitted for a mod
EventCount(modId) ==
  Cardinality({ k \in 1..Len(emitted) : emitted[k].modId = modId })

\* the mods with a decision that counts as affecting
AffectedInPass ==
  { fileActions[i].source :
      i \in { j \in 1..Len(fileActions) :
                fileActions[j].action \in {"import", "delete", "drop", "nop", "newest"} } }

\* C8: in a pass that has run through all its mod types, the event has been
\* emitted exactly once for each affected mod.
C8_OneEventPerModPerPass ==
  pc = "done" => \A m \in AffectedInPass : EventCount(m) = 1

\* the game the pass reconciles
PassGameId ==
  IF profileId \in Profiles THEN ProfileGame(profileId) ELSE activeGameId

\* C9: the first argument of every event is the game id of the profile being
\* reconciled, or the active game id when profileId resolves to no profile.
C9_EventKeyedByGame ==
  \A k \in 1..Len(emitted) :
    emitted[k].gameId \in GameIds /\ emitted[k].gameId = PassGameId

\* C10: when a call has emitted its events, a mod has an event of that call
\* if and only if one of its decisions in the call is import, delete, drop,
\* nop or newest; a mod with restore decisions only has none.
C10_NotifiedIffAffected ==
  \A t \in ModTypes :
    AtReturn(t) =>
      \A m \in Mods :
        (\E k \in 1..Len(emitted) : emitted[k].typeId = t /\ emitted[k].modId = m)
          <=> \E i \in 1..Len(fileActions) :
                /\ fileActions[i].modTypeId = t
                /\ fileActions[i].source = m
                /\ fileActions[i].action \in {"import", "delete", "drop", "nop", "newest"}

C10_Witness ==
  /\ AtReturn("t1")
  /\ Len(emitted) = 1 /\ emitted[1].modId = "B"
  /\ \E i, j \in 1..Len(fileActions) :
       /\ fileActions[i].action = "restore" /\ fileActions[i].source = "A"
       /\ fileActions[i].modTypeId = "t1"
       /\ fileActions[j].action = "nop" /\ fileActions[j].source = "B"
       /\ fileActions[j].modTypeId = "t1"

\* decisions of an action that works on a path, without a usable path
Unusable ==
  { i \in 1..Len(fileActions) :
      /\ ~truthy(fileActions[i].filePath)
      /\ fileActions[i].action \in {"drop", "delete", "import", "newest", "restore"} }

\* the call for the mod type of decision i has got past its file operations
PastFileOps(i) ==
  \/ pc = "done"
  \/ /\ pc = "apply"
     /\ \/ typeIdx > CHOOSE k \in 1..Len(TypeOrder) : TypeOrder[k] = fileActions[i].modTypeId
        \/ CurType = fileActions[i].modTypeId /\ step \in {"notify", "return"}

\* C11: a decision whose filePath is empty or undefined fails its operation
\* with an error whatever its action (drop, delete, import, newest, restore):
\* its call never gets past the file operations, and no file or directory is
\* removed or moved on account of that decision.
C11_InvalidPathFails ==
  \A i \in Unusable :
    /\ ~PastFileOps(i)
    /\ \A r \in fsLog : r.by # i

\* the newest decisions of the call for typeId
Newest(typeId) ==
  { i \in 1..Len(fileActions) :
      fileActions[i].modTypeId = typeId /\ fileActions[i].action = "newest" }

\* the file operations done for decision i
OpsOf(i) == { r \in fsLog : r.by = i }

\* C12: a newest decision goes to the side with the later modification time.
\* With sourceModified > destModified it is handled like a drop: the target
\* file is removed and the staging copy is kept. Otherwise, equal times
\* included, it is handled like an import: the staging copy is removed and the
\* target copy moved into staging. Either way the path leaves the manifest.
C12_NewestTakesLaterSide ==
  \A t \in ModTypes :
    AtReturn(t) =>
      \A i \in Newest(t) :
        LET e == fileActions[i]
        IN  /\ e.filePath \notin relPaths(local)
            /\ target[t][e.filePath] = Absent
            /\ IF e.sourceModified > e.destModified
                 THEN /\ OpsOf(i) = {RemoveRecord("target", t, e.filePath, i)}
                      /\ staging[e.source][e.filePath] = staging0[e.source][e.filePath]
                 ELSE IF i \in warned
                        THEN /\ OpsOf(i) = {RemoveRecord("staging", e.source, e.filePath, i)}
                             /\ staging[e.source][e.filePath] = Absent
                        ELSE /\ OpsOf(i) = {RemoveRecord("staging", e.source, e.filePath, i),
                                            MoveRecord(t, e.source, e.filePath, i)}
                             /\ staging[e.source][e.filePath] = target0[t][e.filePath]

\* a newest decision with equal modification times has moved the changed
\* target file into staging
C12_Witness ==
  /\ AtReturn("t1")
  /\ \E i \in Newest("t1") :
       /\ fileActions[i].sourceModified = fileActions[i].destModified
       /\ i \notin warned
       /\ target0["t1"][fileActions[i].filePath] = 2
       /\ staging[fileActions[i].source][fileActions[i].filePath] = 2

\* the decision source was asked about a non-empty discrepancy set and
\* returned no decisions
NoDecisions == prompted /\ reply \in {"empty", "undefined"}

\* C13: when the decision source returns an empty list or undefined for a
\* non-empty discrepancy set, the pass does not fail, performs no file
\* operation and leaves the manifest of every mod type unchanged.
C13_NoDecisionsIsNop ==
  NoDecisions =>
    /\ pc # "failed"
    /\ fsLog = {}
    /\ staging = staging0 /\ target = target0
    /\ lastDeployment = Manifest0

\* the pass was given a profile id the store has no profile for
Unresolved == profileId # Undefined /\ profileId \notin Profiles

\* the manifests the pass was called with
GivenDeployment ==
  [t \in ModTypes |-> IF t \in present THEN Manifest0[t] ELSE << >>]

\* C14: if the profile cannot be resolved, the detector rejects before
\* activator.externalChanges is called for any mod type, and the pass asks for
\* no decisions, performs no file operation, emits no notification and
\* changes no manifest.
C14_NoProfileNoEffect ==
  Unresolved =>
    /\ pc \in {"check", "failed"}
    /\ calls = << >>
    /\ ~prompted /\ fileActions = << >>
    /\ fsLog = {} /\ staging = staging0 /\ target = target0
    /\ emitted = << >>
    /\ lastDeployment = GivenDeployment

\* the pass has been rejected for an unknown profile although a file changed
C14_Witness ==
  /\ Unresolved
  /\ pc = "failed"
  /\ external # {}

\* C15: a mod type listed in modPaths that has no manifest is treated as
\* "nothing deployed yet": the detection step of that mod type asks the
\* activator like for any other mod type instead of failing.
C15_MissingManifestTolerated ==
  [][ (pc = "detect" /\ inFlight = {} /\ CurType \notin present)
        => calls' = Append(calls, CurType) ]_vars

\* position of a mod type in the order of the calls
TypePos(typeId) == CHOOSE k \in 1..Len(TypeOrder) : TypeOrder[k] = typeId

\* the file operations asked for in the call for typeId have all resolved
FileOpsResolved(typeId) ==
  \A i \in FileOps : fileActions[i].modTypeId = typeId => ops[i] \in {"ok", "warned"}

\* C16 as stated: no manifest is replaced before the file operations of every
\* mod type have finished, and a failed pass leaves all manifests as given.
C16_ManifestsReplacedAtEnd ==
  /\ lastDeployment # GivenDeployment => \A t \in ModTypes : FileOpsResolved(t)
  /\ pc = "failed" => lastDeployment = GivenDeployment

\* C16: the manifest of a mod type is replaced as the last step of the call
\* for that mod type: when it differs from the given one, the call has
\* returned, its file operations have all resolved and it holds no dropped
\* path; when a call fails, the manifests of its mod type and of the later
\* ones are as given, those of the earlier mod types stay replaced.
C16_ManifestReplacedPerCall ==
  /\ \A t \in ModTypes :
       lastDeployment[t] # GivenDeployment[t] =>
         /\ pc \in {"apply", "done", "failed"}
         /\ pc = "done" \/ TypePos(t) < typeIdx
         /\ FileOpsResolved(t)
         /\ lastDeployment[t] = newDeployment(GivenDeployment[t], t)
  /\ \A t \in ModTypes :
       (pc = "failed" /\ TypePos(t) >= typeIdx) => lastDeployment[t] = GivenDeployment[t]

\* the call for t2 failed after the manifest of t1 had been replaced
C16_Witness ==
  /\ pc = "failed"
  /\ typeIdx = 2
  /\ lastDeployment["t1"] # Manifest0["t1"]
  /\ lastDeployment["t2"] = Manifest0["t2"]
  /\ \E i \in FileOps : fileActions[i].modTypeId = "t2" /\ ops[i] = "failed"

\* C17: reconciliation never re-deploys: at every point of a pass each file
\* of a target directory is a file that was there before the pass, with the
\* content it had, so the target files after the pass are a subset of those
\* before it.
C17_NeverRedeploys ==
  \A t \in ModTypes : \A p \in Paths :
    target[t][p] # Absent => target[t][p] = target0[t][p]

\* a pass has finished that dropped a target file and restored a path whose
\* target file was deleted, and the deleted file has not come back
C17_Witness ==
  /\ pc = "done"
  /\ \E i, j \in 1..Len(fileActions) :
       /\ fileActions[i].filePath \in Paths /\ fileActions[j].filePath \in Paths
       /\ fileActions[i].action = "restore"
       /\ target0[fileActions[i].modTypeId][fileActions[i].filePath] = Absent
       /\ staging[fileActions[i].source][fileActions[i].filePath] # Absent
       /\ target[fileActions[i].modTypeId][fileActions[i].filePath] = Absent
       /\ fileActions[j].action = "drop"
       /\ target0[fileActions[j].modTypeId][fileActions[j].filePath] # Absent
       /\ target[fileActions[j].modTypeId][fileActions[j].filePath] = Absent

\* no two entries of a manifest share a relPath
UniqueRelPaths(m) ==
  \A j, k \in 1..Len(m) : m[j].relPath = m[k].relPath => j = k

\* C18: reconciliation preserves the uniqueness of relPath: if no two entries
\* of the given manifest of a mod type share a relPath, no two entries of the
\* manifest a call returns do, nor of the manifest kept for the mod type; the
\* returned manifest has no entry the given one has not.
C18_RelPathsStayUnique ==
  \A t \in ModTypes :
    UniqueRelPaths(GivenDeployment[t]) =>
      /\ UniqueRelPaths(lastDeployment[t])
      /\ AtReturn(t) =>
           /\ UniqueRelPaths(local)
           /\ Len(local) <= Len(GivenDeployment[t])
           /\ \A k \in 1..Len(local) :
                \E j \in 1..Len(GivenDeployment[t]) : local[k] = GivenDeployment[t][j]

\* a call returns the manifest of t1 with one entry taken out by a delete
C18_Witness ==
  /\ AtReturn("t1")
  /\ UniqueRelPaths(Manifest0["t1"])
  /\ Len(local) = Len(Manifest0["t1"]) - 1
  /\ \E i \in 1..Len(fileActions) :
       fileActions[i].action = "delete" /\ fileActions[i].modTypeId = "t1"

\* delete decisions of the call for typeId on a sourceDeleted discrepancy: the
\* staging file was gone before the pass and the target file was there
DeleteOfSourceDeleted(typeId) ==
  { i \in 1..Len(fileActions) :
      /\ fileActions[i].modTypeId = typeId
      /\ fileActions[i].action = "delete"
      /\ fileActions[i].filePath \in Paths
      /\ staging0[fileActions[i].source][fileActions[i].filePath] = Absent
      /\ target0[typeId][fileActions[i].filePath] # Absent }

\* C19: a delete decision on a sourceDeleted discrepancy removes the target
\* file too: when its call resolves, neither the staging copy nor the target
\* copy of that path exists.
C19_DeleteRemovesTarget ==
  \A t \in ModTypes :
    AtReturn(t) =>
      \A i \in DeleteOfSourceDeleted(t) :
        /\ staging[fileActions[i].source][fileActions[i].filePath] = Absent
        /\ target[t][fileActions[i].filePath] = Absent

\* the decisions handled in step 1: drop, and newest with the staging side newer
Dropping ==
  { i \in 1..Len(fileActions) :
      \/ fileActions[i].action = "drop"
      \/ /\ fileActions[i].action = "newest"
         /\ fileActions[i].sourceModified > fileActions[i].destModified }

\* the decisions handled in step 2
Deleting == { i \in 1..Len(fileActions) : fileActions[i].action = "delete" }

\* a file operation of the pass has worked on the staging file mod/path
StagingLogged(mod, path) ==
  \E r \in fsLog :
    /\ r.path = path
    /\ \/ r.side = "staging" /\ r.dir = mod
       \/ r.op = "move" /\ fileActions[r.by].source = mod

\* a file operation of the pass has worked on the target file typeId/path
TargetLogged(typeId, path) ==
  \E r \in fsLog : r.side = "target" /\ r.dir = typeId /\ r.path = path

\* the target file typeId/path is the one an import decision is to move
ImportTarget(typeId, path) ==
  \E i \in 1..Len(fileActions) :
    /\ fileActions[i].modTypeId = typeId /\ fileActions[i].filePath = path
    /\ i \notin Dropping \cup Deleting
    /\ fileActions[i].action \in {"import", "newest"}

\* C20: steps 1 and 2 remove one artifact per decision and nothing else. The
\* only file operation of a drop decision is the removal of the target file
\* outputPath/filePath and its staging file stays as it was; the only file
\* operation of a delete decision is the removal of the staging file of its
\* own source mod and its target file stays as it was; and no file differs
\* from before the pass unless a file operation of the pass names it.
C20_OneArtifactPerDecision ==
  /\ \A i \in Dropping :
       LET e == fileActions[i]
       IN  /\ OpsOf(i) \subseteq {RemoveRecord("target", e.modTypeId, e.filePath, i)}
           /\ staging[e.source][e.filePath] = staging0[e.source][e.filePath]
           /\ ops[i] = "ok" => /\ OpsOf(i) # {}
                               /\ target[e.modTypeId][e.filePath] = Absent
  /\ \A i \in Deleting :
       LET e == fileActions[i]
       IN  /\ OpsOf(i) \subseteq {RemoveRecord("staging", e.source, e.filePath, i)}
           /\ target[e.modTypeId][e.filePath] = target0[e.modTypeId][e.filePath]
           /\ ops[i] = "ok" => /\ OpsOf(i) # {}
                               /\ staging[e.source][e.filePath] = Absent
  /\ \A m \in Mods : \A p \in Paths :
       staging[m][p] # staging0[m][p] => StagingLogged(m, p)
  /\ \A t \in ModTypes : \A p \in Paths :
       target[t][p] # target0[t][p] => TargetLogged(t, p) \/ ImportTarget(t, p)

\* a pass has finished with a drop and a delete, and the target file of the
\* drop and the staging file of the delete are the only files that changed
C20_Witness ==
  /\ pc = "done"
  /\ \E i \in Dropping : \E j \in Deleting :
       LET d == fileActions[i]
           e == fileActions[j]
       IN  /\ target0[d.modTypeId][d.filePath] # Absent
           /\ staging0[e.source][e.filePath] # Absent
           /\ d.source # e.source
           /\ \A t \in ModTypes : \A p \in Paths :
                target[t][p] # target0[t][p] <=> (t = d.modTypeId /\ p = d.filePath)
           /\ \A m \in Mods : \A p \in Paths :
                staging[m][p] # staging0[m][p] <=> (m = e.source /\ p = e.filePath)

\* the decisions of the list that are for typeId
DecisionsFor(typeId) ==
  { i \in 1..Len(fileActions) : fileActions[i].modTypeId = typeId }

\* C21: reconciliation with an empty decision list is a no-op: the call
\* returns the manifest it was given, entries and order unchanged, has done
\* no file operation in its target directory, has emitted no event, and
\* rebuilding the returned manifest once more gives the same manifest.
C21_EmptyListIsNop ==
  \A t \in ModTypes :
    (AtReturn(t) /\ DecisionsFor(t) = {}) =>
      /\ local = GivenDeployment[t]
      /\ lastDeployment[t] = GivenDeployment[t]
      /\ newDeployment(local, t) = local
      /\ \A r \in fsLog : r.side = "target" => r.dir # t
      /\ target[t] = target0[t]
      /\ \A k \in 1..Len(emitted) : emitted[k].typeId # t

\* the call for t2 returns without a decision of its own after the call for
\* t1 has carried out file operations
C21_Witness ==
  /\ AtReturn("t2")
  /\ DecisionsFor("t2") = {}
  /\ fsLog # {}
  /\ Len(local) > 0

\* C22: the decision source is asked only about a non-empty discrepancy set:
\* the detection result has a key for a mod type only if the activator
\* reported a change for it, a prompt is issued only when some mod type has
\* changes, and without changes the pass goes on with an empty decision list
\* and no prompt.
C22_PromptOnlyForChanges ==
  /\ changes \subseteq external
  /\ changedTypes = { sl[1] : sl \in changes }
  /\ prompted => changes # {}
  /\ (pc \in {"apply", "done"} /\ changes = {}) => (~prompted /\ fileActions = << >>)

\* a pass has asked the activator about every mod type, found nothing,
\* issued no prompt and run to its end
C22_Witness ==
  /\ pc = "done"
  /\ calls = TypeOrder
  /\ changes = {}
  /\ ~prompted

\* the call for typeId has not begun
NotYetCalled(typeId) ==
  \/ pc \in {"check", "detect", "prompt"}
  \/ pc \in {"apply", "failed"} /\ TypePos(typeId) > typeIdx
  \/ pc \in {"apply", "failed"} /\ TypePos(typeId) = typeIdx /\ step = "begin"

\* C25: reconciliation is scoped per mod type. A decision is taken up only by
\* the call for the mod type equal to its modTypeId, every file operation on a
\* target directory is done for a decision of that mod type, and until the
\* call for a mod type has begun its manifest and its target directory are as
\* they were before the pass, whatever the calls for other mod types did.
C25_ScopedPerModType ==
  /\ \A i \in 1..Len(ops) :
       ops[i] # "idle" => ~NotYetCalled(fileActions[i].modTypeId)
  /\ \A r \in fsLog :
       r.side = "target" => r.dir = fileActions[r.by].modTypeId
  /\ \A k \in 1..Len(emitted) :
       \E i \in DecisionsFor(emitted[k].typeId) : fileActions[i].source = emitted[k].modId
  /\ \A t \in ModTypes :
       NotYetCalled(t) =>
         /\ lastDeployment[t] = GivenDeployment[t]
         /\ target[t] = target0[t]
  /\ \A t \in ModTypes :
       DecisionsFor(t) = {} =>
         /\ lastDeployment[t] = GivenDeployment[t]
         /\ target[t] = target0[t]

\* the call for t1 has removed a target file of t1 and returned a shorter
\* manifest while the manifest and the target directory of t2, which has a
\* decision waiting, are untouched
C25_Witness ==
  /\ pc = "apply" /\ typeIdx = 2 /\ step = "begin"
  /\ lastDeployment["t1"] # Manifest0["t1"]
  /\ target["t1"] # target0["t1"]
  /\ DecisionsFor("t2") # {}
  /\ lastDeployment["t2"] = Manifest0["t2"]
  /\ target["t2"] = target0["t2"]

\* the detector is at work, or the pass ended in it
\* (a pass without a prompt has no decisions, so it cannot fail later)
InDetector == pc \in {"check", "detect"} \/ (pc = "failed" /\ ~prompted)

\* C26: the detector only reads. While it is at work no manifest and no file
\* has changed; it calls activator.externalChanges at most once per mod type
\* of modPaths, in their order and one call at a time; and decisions are
\* requested or applied only when every call has resolved, so a rejected call
\* ends the pass before that.
C26_DetectorOnlyReads ==
  /\ InDetector =>
       /\ lastDeployment = GivenDeployment
       /\ staging = staging0 /\ target = target0 /\ fsLog = {}
       /\ emitted = << >>
  /\ Len(calls) <= Len(TypeOrder)
  /\ \A k \in 1..Len(calls) : calls[k] = TypeOrder[k]
  /\ Cardinality(inFlight) <= 1
  /\ \A t \in inFlight : calls[Len(calls)] = t
  /\ (prompted \/ pc \in {"prompt", "apply", "done"} \/ fsLog # {} \/ fileActions # << >>) =>
       /\ calls = TypeOrder
       /\ inFlight = {}
       /\ changes = external

\* the second call of the activator was rejected after the first had
\* reported a change: the pass is over and nothing was asked or touched
C26_Witness ==
  /\ pc = "failed"
  /\ calls = TypeOrder
  /\ inFlight = {}
  /\ changes # {} /\ changes # external
  /\ ~prompted
  /\ fsLog = {}
  /\ lastDeployment = Manifest0

\* the function of enqueue call k has been called and has finished: its
\* promise has settled or it threw
Finished(k) == tasks[k].called > 0 /\ tasks[k].st \in {"settled", "done"}

\* C23: in a queue made by makeQueue a function passed to enqueue is called
\* only after every function enqueued before it has finished (the functions
\* of tryOnly calls that were turned away are never called), no function is
\* called twice, and no two functions are running at the same time.
C23_OneAtATime ==
  /\ Cardinality({ k \in 1..Len(tasks) : tasks[k].st = "running" }) <= 1
  /\ \A k \in 1..Len(tasks) :
       /\ tasks[k].called <= 1
       /\ tasks[k].st = "skipped" => tasks[k].called = 0
       /\ tasks[k].called > 0 =>
            \A j \in 1..(k - 1) : tasks[j].st = "skipped" \/ Finished(j)

\* the third function is running while the two before it, one of which
\* rejected, have finished
C23_Witness ==
  /\ Len(tasks) = 3
  /\ tasks[3].st = "running"
  /\ Finished(1) /\ Finished(2)
  /\ tasks[1].promise = "rejected"
  /\ tasks[2].promise = "resolved"

\* C24: an enqueue call with tryOnly made while a function enqueued before
\* has not finished, running or not yet started, resolves at once and its
\* function is never called; made while no such function is left, it is
\* taken into the queue.
C24_TryOnlyTurnedAway ==
  \A k \in 1..Len(tasks) :
    tasks[k].tryOnly =>
      IF tasks[k].busy
        THEN tasks[k].st = "skipped" /\ tasks[k].promise = "resolved" /\ tasks[k].called = 0
        ELSE tasks[k].st # "skipped"

\* every callback that was due has run and every called function has finished
AtRest == \A k \in 1..Len(tasks) : tasks[k].st \in {"skipped", "done"}

\* the promise an enqueue call returns has settled with the outcome of its
\* own function
OwnOutcome(k) ==
  /\ tasks[k].called = 1
  /\ tasks[k].promise = IF tasks[k].will = "resolve" THEN "resolved" ELSE "rejected"

\* C27: a function that fails rejects only the promise of its own enqueue
\* call: no promise is rejected for a function that succeeds, and when the
\* queue has come to rest every function that was taken into the queue,
\* those behind a failed one included, has been called once and its promise
\* has settled with its own outcome.
C27_FailureStaysLocal ==
  /\ \A k \in 1..Len(tasks) : tasks[k].promise = "rejected" => tasks[k].will # "resolve"
  /\ AtRest => \A k \in 1..Len(tasks) : tasks[k].st # "skipped" => OwnOutcome(k)

\* C28: every function enqueued with tryOnly = false is in the end called
\* exactly once, the functions ahead of it finishing in the end, and the
\* promise of its enqueue call then settles with its own result or error.
C28_EnqueuedIsCalled ==
  \A k \in 1..MaxEnqueue :
    (Len(tasks) >= k /\ ~tasks[k].tryOnly) ~> (Len(tasks) >= k /\ OwnOutcome(k))

\* the requests whose install (a call of installLib) is in progress
Installing == { k \in 1..Len(requests) : requests[k].st = "installing" }

\* C29: at most one fomod install is in progress at any time, and a request
\* starts its install only when the install of every earlier request has
\* finished.
C29_OneInstallAtATime ==
  /\ Cardinality(Installing) <= 1
  /\ \A k \in 1..Len(requests) :
       requests[k].started =>
         \A j \in 1..(k - 1) : requests[j].st \in {"resolved", "rejected"}

\* request k has settled
RequestSettled(k) == requests[k].st \in {"resolved", "rejected"}

\* C30: a failed install does not poison the requests waiting behind it: a
\* request that has settled has run its own install unless installLib could
\* not be made for it, it is rejected with no error but its own, and its
\* coreDelegates have been detached exactly once.
C30_FailureNotPassedOn ==
  \A k \in 1..Len(requests) :
    RequestSettled(k) =>
      /\ requests[k].detached = 1
      /\ requests[k].error \in {0, k}
      /\ requests[k].started \/ requests[k].error = k

====
